---- MODULE Spec2Model ----
(***************************************************************************)
(* A model of ScopeExtension (src/src/extensions/scope/scope.extension.ts):*)
(* the component factory of a scope.  The store (ModelComponents, Version  *)
(* objects, consumer records) is read-only state fixed at construction;    *)
(* one call of the factory is in flight at a time and advances one await   *)
(* at a time.                                                              *)
(***************************************************************************)
EXTENDS Integers, Sequences, FiniteSets, TLC

VARIABLES
    models,      \* legacyScope: <<scope, name>> -> ModelComponent or NoModel
    objects,     \* legacyScope.objects: the set of Refs whose record can be loaded
    consumers,   \* legacy ids for which getConsumerComponent produces a record
    op,          \* the operation in flight, "idle" when there is none
    arg,         \* the argument the caller passed to the operation in flight
    ids,         \* getMany: idsWithoutEmpty (line 183)
    gets,        \* one frame per get started or to be started by the operation
    result,      \* the outcome of the operation in flight, Pending until it settles
    hooks,       \* the callbacks registered by onTag and onPostExport
    ext,         \* loadExtensions: its stage and the calls made to isolator and loader
    hashed       \* getState: its position and the record loaded under the hash

vars == <<models, objects, consumers, op, arg, ids, gets, result, hooks, ext, hashed>>

----------------------------------------------------------------------------
(* Bounds of the model.                                                    *)

\* longest input sequence handed to getMany
MaxIds == 3
\* largest offset a list filter carries
MaxOffset == 2
\* largest limit a list filter carries
MaxLimit == 2

----------------------------------------------------------------------------
(* Values.                                                                 *)

\* this.name: legacyScope.name
ScopeName == "local"

\* id.scope of an id that carries no scope (falsy)
NoScope == ""

Names == {"util", "shared"}

IdScopes == {NoScope, ScopeName, "other"}

\* the slots of the store, in the order legacyScope.list() returns them
SlotOrder ==
    << <<ScopeName, "util">>, <<"other", "shared">>, <<ScopeName, "shared">>,
       <<NoScope, "util">>, <<"other", "util">> >>

Slots == {SlotOrder[i] : i \in 1..Len(SlotOrder)}

\* ComponentIDs callers pass
ComponentIDs == [scope : IdScopes, name : Names]

\* a nullish entry of an ids array
Nullish == [nullish |-> TRUE]

\* the version-string keys a ModelComponent may carry
VersionStrs == {"1.0.0", "v1.0.0", "2.0.0", "bad"}

NoModel == [none |-> "model"]
NoVersion == [none |-> "version"]
Pending == [kind |-> "pending"]
Absent == [kind |-> "absent"]

\* an error raised to the caller
Failure(error, id) == [kind |-> "error", error |-> error, id |-> id]

----------------------------------------------------------------------------
(* Collaborators.                                                          *)

\* id._legacy: the BitId of a ComponentID, the key of the store
Legacy(id) == <<id.scope, id.name>>

\* id.changeScope(scopeName)
ChangeScope(id, scopeName) == [id EXCEPT !.scope = scopeName]

\* legacyScope.getModelComponentIfExist(id._legacy)
GetModelComponentIfExist(id) ==
    IF Legacy(id) \in DOMAIN models THEN models[Legacy(id)] ELSE NoModel

\* the Version record stored under a Ref: its content is a function of the Ref
VersionOf(ref) ==
    [ hash |-> ref,
      mainFile |-> "index.ts",
      dependencies |-> IF ref[3] = "bad" THEN {"dep-b"} ELSE {"dep-a"},
      log |-> [ username |-> IF ref[3] = "1.0.0" THEN "dana" ELSE "",
                email |-> IF ref[3] = "1.0.0" THEN "dana@example.org" ELSE "",
                message |-> IF ref[3] = "bad" THEN "" ELSE "release",
                date |-> "1600000000000" ] ]

\* legacyScope.objects.load(ref)
LoadObject(ref) == IF ref \in objects THEN VersionOf(ref) ELSE NoVersion

\* modelComponent.loadVersion(versionStr, legacyScope.objects)
LoadVersion(modelComponent, versionStr) ==
    LoadObject(modelComponent.versions[versionStr])

\* modelComponent.latest()
Latest(modelComponent) == modelComponent.latest

\* the id carries an explicit version
HasVersion(id) == "version" \in DOMAIN id

\* legacyScope.getConsumerComponent(id._legacy) produces a record: one can be
\* produced for the component and, when the id carries a version, that version
\* is a key of the ModelComponent and its record is stored
ConsumerAvailable(id) ==
    /\ Legacy(id) \in consumers
    /\ HasVersion(id) =>
          /\ GetModelComponentIfExist(id) # NoModel
          /\ id.version \in DOMAIN GetModelComponentIfExist(id).versions
          /\ GetModelComponentIfExist(id).versions[id.version] \in objects

\* the version the record of getConsumerComponent(id._legacy) is built from:
\* the version the id carries, the latest one when it carries none
ConsumerVersion(id) ==
    IF HasVersion(id) THEN id.version
    ELSE IF GetModelComponentIfExist(id) = NoModel THEN "latest"
         ELSE Latest(GetModelComponentIfExist(id))

\* semver: the version a string parses to ("v1.0.0" and "1.0.0" parse alike),
\* or "invalid" when the SemVer constructor throws
SemVerParse(versionStr) ==
    CASE versionStr = "1.0.0" -> "1.0.0"
      [] versionStr = "v1.0.0" -> "1.0.0"
      [] versionStr = "2.0.0" -> "2.0.0"
      [] OTHER -> "invalid"

SemVerValid(versionStr) == SemVerParse(versionStr) # "invalid"

\* new SemVer(versionStr): a fresh object per key, holding the raw string and
\* the parsed version
SemVer(versionStr) == [raw |-> versionStr, version |-> SemVerParse(versionStr)]

----------------------------------------------------------------------------
(* Pure parts of the factory.                                              *)

\* the strings that are the decimal digits of an integer
NumericStrings == {"1600000000000"}

\* parseInt(string): the integer the digits denote, NaN for any other string
ParseInt(string) ==
    IF string \in NumericStrings THEN [number |-> string] ELSE [number |-> "NaN"]

\* new Date(number): the instant that many milliseconds after the epoch, an
\* invalid Date for NaN
NewDate(number) ==
    IF number.number = "NaN" THEN [time |-> "Invalid Date"] ELSE [time |-> number.number]

CreateSnapWithoutDefaults(version) ==
    [ hash |-> version.hash,
      date |-> NewDate(ParseInt(version.log.date)),
      parents |-> <<>>,
      author |-> [ displayName |-> version.log.username,
                   email |-> version.log.email ],
      message |-> version.log.message ]

\* createSnapFromVersion
CreateSnapFromVersion(version) ==
    [ hash |-> version.hash,
      date |-> NewDate(ParseInt(version.log.date)),
      parents |-> <<>>,
      author |-> [ displayName |-> IF version.log.username # ""
                                   THEN version.log.username ELSE "unknown",
                   email |-> IF version.log.email # ""
                             THEN version.log.email ELSE "unknown@anywhere" ],
      message |-> version.log.message ]

CreateStateOfLatest(id, version) ==
    LET modelComponent == GetModelComponentIfExist(id)
        latest == IF modelComponent = NoModel THEN version
                  ELSE VersionOf(modelComponent.versions[Latest(modelComponent)])
    IN  [ config |-> [main |-> version.mainFile, extensions |-> <<"consumer", Legacy(id)>>],
          filesystem |-> <<"files", Legacy(id)>>,
          dependencies |-> latest.dependencies,
          consumer |-> Legacy(id),
          consumerVersion |-> ConsumerVersion(id) ]

\* new State(...) of createStateFromVersion, given the consumer record
CreateState(id, version) ==
    [ config |-> [main |-> version.mainFile, extensions |-> <<"consumer", Legacy(id)>>],
      filesystem |-> <<"files", Legacy(id)>>,
      dependencies |-> version.dependencies,
      consumer |-> Legacy(id),
      consumerVersion |-> ConsumerVersion(id) ]

\* new Tag(snap, new SemVer(versionStr))
NewTag(snap, versionStr) == [snap |-> snap, version |-> SemVer(versionStr)]

\* TagMapSet keyed by the parsed version instead of the SemVer object
TagMapSetByVersion(tagMap, key, tag) ==
    LET kept == {k \in DOMAIN tagMap : k.version # key.version}
    IN  [k \in kept \cup {key} |-> IF k = key THEN tag ELSE tagMap[k]]

\* tagMap.set(key, tag): a Map keyed by the SemVer object
TagMapSet(tagMap, key, tag) ==
    [k \in DOMAIN tagMap \cup {key} |-> IF k = key THEN tag ELSE tagMap[k]]

\* new TagMap()
EmptyTagMap == [k \in {} |-> Absent]

\* exists accepting any component that has an owner
ExistsScoped(modelComponent) == modelComponent.scope # NoScope

\* exists(modelComponent)
Exists(modelComponent) == modelComponent.scope = ScopeName

\* Compact stopping at the first falsy entry
RECURSIVE CompactPrefix(_)
CompactPrefix(array) ==
    IF array = <<>> THEN <<>>
    ELSE IF Head(array) = Nullish \/ Head(array) = Absent
         THEN <<>>
         ELSE <<Head(array)>> \o CompactPrefix(Tail(array))

\* lodash compact(array): the array without its falsy (nullish, absent) entries
RECURSIVE Compact(_)
Compact(array) ==
    IF array = <<>> THEN <<>>
    ELSE IF Head(array) = Nullish \/ Head(array) = Absent
         THEN Compact(Tail(array))
         ELSE <<Head(array)>> \o Compact(Tail(array))

Min(a, b) == IF a < b THEN a ELSE b

\* lodash slice(array, start, end), 0-based, end exclusive
Slice(array, start, end) ==
    IF Min(end, Len(array)) <= start THEN <<>>
    ELSE SubSeq(array, start + 1, Min(end, Len(array)))

\* list's filter argument when the caller passes none
NoFilter == [none |-> "filter"]

\* legacyScope.list(): the stored ModelComponents in store order
RECURSIVE ListFrom(_)
ListFrom(i) ==
    IF i > Len(SlotOrder) THEN <<>>
    ELSE IF models[SlotOrder[i]] # NoModel
         THEN <<models[SlotOrder[i]]>> \o ListFrom(i + 1)
         ELSE ListFrom(i + 1)

LegacyList == ListFrom(1)

\* Array.prototype.filter with the ownership predicate (line 163)
RECURSIVE FilterExists(_)
FilterExists(modelComponents) ==
    IF modelComponents = <<>> THEN <<>>
    ELSE IF Exists(Head(modelComponents))
         THEN <<Head(modelComponents)>> \o FilterExists(Tail(modelComponents))
         ELSE FilterExists(Tail(modelComponents))

\* ComponentID.fromLegacy(component.toBitIdWithLatestVersion())
IdOfModel(modelComponent) ==
    [scope |-> modelComponent.scope, name |-> modelComponent.name]

\* lines 161-168: the ids of the listed (ownership-filtered) ModelComponents
ListedIds(includeCache) ==
    LET modelComponents == IF includeCache THEN LegacyList ELSE FilterExists(LegacyList)
    IN  [i \in 1..Len(modelComponents) |-> IdOfModel(modelComponents[i])]

\* the filter applies: filter && filter.limit (line 171)
Paginates(filter) == filter # NoFilter /\ filter.limit # 0

\* line 171: the ids list hands to getMany
PageOf(componentsIds, filter) ==
    IF Paginates(filter)
    THEN Slice(componentsIds, filter.offset, filter.offset + filter.limit)
    ELSE componentsIds

----------------------------------------------------------------------------
(* One get: a frame that advances one await at a time.                     *)

\* the frame of a get that has not started
WaitingFrame(id) ==
    [ pc |-> "waiting", asked |-> id, id |-> id, modelComponent |-> NoModel,
      looked |-> <<>>, version |-> NoVersion, snap |-> Absent, state |-> Absent,
      pending |-> {}, tagMap |-> EmptyTagMap, out |-> Pending ]

\* the function body runs up to its first await (line 135)
StartedFrame(id) == [WaitingFrame(id) EXCEPT !.pc = "lookup1"]

\* Rebinds with the scope test inverted
RebindsScoped(modelComponent, id) == modelComponent = NoModel /\ id.scope # NoScope

\* Rebinds without the scope test
RebindsAlways(modelComponent, id) == modelComponent = NoModel

\* line 137: the lookup is retried under this scope's name
Rebinds(modelComponent, id) == modelComponent = NoModel /\ id.scope = NoScope

\* new Component(id, snap, state, tagMap, this)
NewComponent(id, snap, state, tagMap) ==
    [kind |-> "component", id |-> id, head |-> snap, state |-> state, tags |-> tagMap]

\* TagCallback without the test of line 227: it throws on a missing Version
TagCallbackUnguarded(tagMap, modelComponent, versionStr) ==
    LET version == LoadVersion(modelComponent, versionStr)
    IN  IF version = NoVersion \/ ~SemVerValid(versionStr)
        THEN [ok |-> FALSE, tagMap |-> tagMap]
        ELSE [ ok |-> TRUE,
               tagMap |-> TagMapSet(tagMap, SemVer(versionStr),
                            NewTag(CreateSnapFromVersion(version), versionStr)) ]

\* lines 225-232: the body of the per-version callback once its load has
\* settled; ok is FALSE when it throws
TagCallback(tagMap, modelComponent, versionStr) ==
    LET version == LoadVersion(modelComponent, versionStr)
    IN  IF version = NoVersion
        THEN [ok |-> TRUE, tagMap |-> tagMap]
        ELSE IF ~SemVerValid(versionStr)
             THEN [ok |-> FALSE, tagMap |-> tagMap]
             ELSE [ ok |-> TRUE,
                    tagMap |-> TagMapSet(tagMap, SemVer(versionStr),
                                 NewTag(CreateSnapFromVersion(version), versionStr)) ]

\* mapSeries calling every callback at once, as Promise.all over map does
MayStartAll(i) == TRUE

\* Bluebird mapSeries: the callback for position i runs once the promise of
\* position i-1 has resolved
MayStart(i) == IF i = 1 THEN TRUE ELSE gets[i - 1].pc = "done"

\* NotFound carrying the id as get rebinds it
NotFoundRebound(id) ==
    Failure("ComponentNotFound",
            IF id.scope = NoScope THEN ChangeScope(id, ScopeName) ELSE id)

\* getOrThrow, line 197: the error raised for an absent component
NotFound(id) == Failure("ComponentNotFound", id)

----------------------------------------------------------------------------
(* Construction: the store the scope is opened on.                         *)

\* the ModelComponent stored in a slot, with the given version keys
MakeModel(slot, keys, latest) ==
    [ scope |-> slot[1], name |-> slot[2],
      versions |-> [k \in keys |-> <<slot[1], slot[2], k>>],
      latest |-> latest ]

\* the slots held when the history of "util" is the part that varies
HistorySlots == {<<ScopeName, "util">>, <<"other", "shared">>, <<ScopeName, "shared">>}

\* the store: the held slots, the history of "util" (its version keys, its
\* latest pointer, the keys whose record is missing) and the names without a
\* consumer record; every other component has the single version "1.0.0"
StoreIs(present, keys, latest, missing, noConsumer) ==
    /\ models = [ s \in Slots |->
                    IF s \notin present THEN NoModel
                    ELSE IF s[2] = "util" THEN MakeModel(s, keys, latest)
                    ELSE MakeModel(s, {"1.0.0"}, "1.0.0") ]
    /\ objects = { <<s[1], s[2], k>> : s \in Slots, k \in VersionStrs }
                   \ { <<s[1], "util", k>> : s \in Slots, k \in missing }
    /\ consumers = { s \in Slots : s[2] \notin noConsumer }

\* no callback is registered: the registries as the constructor receives them
NoHooks ==
    [onTag |-> <<>>, tagRegistry |-> <<>>,
     onPostExport |-> <<>>, postExportRegistry |-> <<>>]

\* loadExtensions is not running: no call was made to the isolator or to the
\* loader of requireable extensions
NoExt == [stage |-> "none", isolated |-> <<>>, capsules |-> <<>>, loaded |-> <<>>]

\* getState is not running
NoHashed == [pc |-> "none", version |-> NoVersion]

\* no operation is in flight
Idle ==
    /\ op = "idle"
    /\ arg = Absent
    /\ ids = <<>>
    /\ gets = <<>>
    /\ result = Pending
    /\ ext = NoExt
    /\ hashed = NoHashed

\* the version keys the histories of Init are drawn from
ShortHistory == {"1.0.0", "v1.0.0", "bad"}

\* Either any set of slots is held, each with the single loadable version
\* "1.0.0"; or HistorySlots are held and "util" carries any non-empty set of
\* the keys of ShortHistory, any of them as latest, any of their records
\* missing, with or without a consumer record.
Init ==
    /\ Idle
    /\ hooks = NoHooks
    /\ \E present \in SUBSET Slots, keys \in (SUBSET ShortHistory) \ {{}},
          latest \in ShortHistory, missing \in SUBSET ShortHistory,
          noConsumer \in SUBSET {"util"} :
          /\ latest \in keys
          /\ missing \subseteq keys
          /\ IF present = HistorySlots THEN TRUE
             ELSE keys = {"1.0.0"} /\ missing = {} /\ noConsumer = {}
          /\ StoreIs(present, keys, latest, missing, noConsumer)

\* HistorySlots are held and "util" carries any non-empty set of version keys,
\* any of them as latest, any of their records missing, with or without a
\* consumer record.
InitHistory ==
    /\ Idle
    /\ hooks = NoHooks
    /\ \E keys \in (SUBSET VersionStrs) \ {{}}, latest \in VersionStrs,
          missing \in SUBSET VersionStrs, noConsumer \in SUBSET {"util"} :
          /\ latest \in keys
          /\ missing \subseteq keys
          /\ StoreIs(HistorySlots, keys, latest, missing, noConsumer)

----------------------------------------------------------------------------
(* Calls.                                                                  *)

\* the entries callers put in the array they hand to getMany
InputEntries ==
    { [scope |-> NoScope, name |-> "util"], [scope |-> "other", name |-> "shared"],
      [scope |-> "other", name |-> "util"], Nullish }

RECURSIVE SeqsUpTo(_, _)
SeqsUpTo(S, n) ==
    IF n = 0 THEN {<<>>}
    ELSE LET shorter == SeqsUpTo(S, n - 1)
         IN  shorter \cup { Append(q, x) : q \in {r \in shorter : Len(r) = n - 1}, x \in S }

\* the most frames one operation holds
MaxFrames == IF MaxIds > Len(SlotOrder) THEN MaxIds ELSE Len(SlotOrder)

Filters == {NoFilter} \cup [offset : 0..MaxOffset, limit : 0..MaxLimit]

\* get(id) is called: lines 134-135
CallGet(id) ==
    /\ op = "idle"
    /\ op' = "get"
    /\ arg' = id
    /\ gets' = <<StartedFrame(id)>>
    /\ UNCHANGED <<hooks, ext, hashed, models, objects, consumers, ids, result>>

\* getOrThrow(id) is called: lines 195-196
CallGetOrThrow(id) ==
    /\ op = "idle"
    /\ op' = "getOrThrow"
    /\ arg' = id
    /\ gets' = <<StartedFrame(id)>>
    /\ UNCHANGED <<hooks, ext, hashed, models, objects, consumers, ids, result>>

\* getMany(ids) is called: lines 183-184
EnterGetMany(input) ==
    /\ ids' = Compact(input)
    /\ gets' = [i \in 1..Len(Compact(input)) |-> WaitingFrame(Compact(input)[i])]

CallGetMany(input) ==
    /\ op = "idle"
    /\ op' = "getMany"
    /\ arg' = input
    /\ EnterGetMany(input)
    /\ UNCHANGED <<hooks, ext, hashed, models, objects, consumers, result>>

\* list(filter, includeCache) is called: line 161, up to the await
CallList(filter, includeCache) ==
    /\ op = "idle"
    /\ op' = "list"
    /\ arg' = [filter |-> filter, includeCache |-> includeCache, listed |-> FALSE]
    /\ UNCHANGED <<hooks, ext, hashed, models, objects, consumers, ids, gets, result>>

\* list: legacyScope.list() has resolved; lines 162-172
ListModels ==
    /\ op = "list"
    /\ ~arg.listed
    /\ arg' = [arg EXCEPT !.listed = TRUE]
    /\ EnterGetMany(PageOf(ListedIds(arg.includeCache), arg.filter))
    /\ UNCHANGED <<hooks, ext, hashed, models, objects, consumers, op, result>>

InGetMany == IF op = "list" THEN arg.listed ELSE op = "getMany"

\* getMany runs, called by a caller, by list (line 172) or by loadExtensions
\* (line 121)
MapSeries == IF op = "loadExtensions" THEN ext.stage = "hydrate" ELSE InGetMany

\* mapSeries calls the callback of position i: get(id) runs to line 135
StartGet(i) ==
    /\ MapSeries
    /\ result = Pending
    /\ i \in 1..Len(gets)
    /\ gets[i].pc = "waiting"
    /\ MayStart(i)
    /\ gets' = [gets EXCEPT ![i].pc = "lookup1"]
    /\ UNCHANGED <<hooks, ext, hashed, models, objects, consumers, op, arg, ids, result>>

\* line 135 resolves; lines 137-141
Lookup1(i) ==
    /\ i \in 1..Len(gets)
    /\ gets[i].pc = "lookup1"
    /\ LET f == gets[i]
           modelComponent == GetModelComponentIfExist(f.id)
           looked == Append(f.looked, Legacy(f.id))
       IN  gets' = [gets EXCEPT ![i] =
              IF Rebinds(modelComponent, f.id)
              THEN [f EXCEPT !.pc = "lookup2", !.looked = looked,
                             !.id = ChangeScope(f.id, ScopeName)]
              ELSE IF modelComponent = NoModel
                   THEN [f EXCEPT !.pc = "done", !.looked = looked, !.out = Absent]
                   ELSE [f EXCEPT !.pc = "loadLatest", !.looked = looked,
                                  !.modelComponent = modelComponent]]
    /\ UNCHANGED <<hooks, ext, hashed, models, objects, consumers, op, arg, ids, result>>

\* line 139 resolves; line 141
Lookup2(i) ==
    /\ i \in 1..Len(gets)
    /\ gets[i].pc = "lookup2"
    /\ LET f == gets[i]
           modelComponent == GetModelComponentIfExist(f.id)
           looked == Append(f.looked, Legacy(f.id))
       IN  gets' = [gets EXCEPT ![i] =
              IF modelComponent = NoModel
              THEN [f EXCEPT !.pc = "done", !.looked = looked, !.out = Absent]
              ELSE [f EXCEPT !.pc = "loadLatest", !.looked = looked,
                             !.modelComponent = modelComponent]]
    /\ UNCHANGED <<hooks, ext, hashed, models, objects, consumers, op, arg, ids, result>>

\* lines 144-146: the latest Version resolves; createSnapFromVersion
\* dereferences it, and throws a TypeError when it is not there
LoadLatest(i) ==
    /\ i \in 1..Len(gets)
    /\ gets[i].pc = "loadLatest"
    /\ LET f == gets[i]
           version == LoadVersion(f.modelComponent, Latest(f.modelComponent))
       IN  gets' = [gets EXCEPT ![i] =
              IF version = NoVersion
              THEN [f EXCEPT !.pc = "failed", !.out = Failure("TypeError", f.id)]
              ELSE [f EXCEPT !.pc = "state", !.version = version,
                             !.snap = CreateSnapFromVersion(version)]]
    /\ UNCHANGED <<hooks, ext, hashed, models, objects, consumers, op, arg, ids, result>>

\* lines 151-152 and 253-262: getConsumerComponent settles; on success the
\* State is built and getTagMap issues the load of every version key (224-225)
CreateStateFromVersion(i) ==
    /\ i \in 1..Len(gets)
    /\ gets[i].pc = "state"
    /\ LET f == gets[i]
           keys == DOMAIN f.modelComponent.versions
           state == CreateState(f.id, f.version)
       IN  gets' = [gets EXCEPT ![i] =
              IF ~ConsumerAvailable(f.id)
              THEN [f EXCEPT !.pc = "failed",
                             !.out = Failure("ComponentRecordUnavailable", f.id)]
              ELSE IF keys = {}
                   THEN [f EXCEPT !.pc = "done", !.state = state,
                                  !.out = NewComponent(f.id, f.snap, state, EmptyTagMap)]
                   ELSE [f EXCEPT !.pc = "tags", !.state = state, !.pending = keys]]
    /\ UNCHANGED <<hooks, ext, hashed, models, objects, consumers, op, arg, ids, result>>

\* lines 225-232: the load of one version key settles, in any order; Promise.all
\* rejects at the first callback that throws and resolves after the last one
TagLoaded(i, versionStr) ==
    /\ i \in 1..Len(gets)
    /\ gets[i].pc \in {"tags", "failed"}
    /\ versionStr \in gets[i].pending
    /\ LET f == gets[i]
           r == TagCallback(f.tagMap, f.modelComponent, versionStr)
           pending == f.pending \ {versionStr}
       IN  gets' = [gets EXCEPT ![i] =
              IF f.pc = "failed"
              THEN [f EXCEPT !.pending = pending, !.tagMap = r.tagMap]
              ELSE IF ~r.ok
                   THEN [f EXCEPT !.pc = "failed", !.pending = pending,
                                  !.out = Failure("InvalidVersion", versionStr)]
                   ELSE IF pending # {}
                        THEN [f EXCEPT !.pending = pending, !.tagMap = r.tagMap]
                        ELSE [f EXCEPT !.pc = "done", !.pending = pending,
                                       !.tagMap = r.tagMap,
                                       !.out = NewComponent(f.id, f.snap, f.state, r.tagMap)]]
    /\ UNCHANGED <<hooks, ext, hashed, models, objects, consumers, op, arg, ids, result>>

\* get settles with what its frame produced
GetSettles ==
    /\ op = "get"
    /\ result = Pending
    /\ gets[1].pc \in {"done", "failed"}
    /\ result' = gets[1].out
    /\ UNCHANGED <<hooks, ext, hashed, models, objects, consumers, op, arg, ids, gets>>

\* getOrThrow, lines 196-198
GetOrThrowSettles ==
    /\ op = "getOrThrow"
    /\ result = Pending
    /\ gets[1].pc \in {"done", "failed"}
    /\ result' = IF gets[1].out = Absent THEN NotFound(arg) ELSE gets[1].out
    /\ UNCHANGED <<hooks, ext, hashed, models, objects, consumers, op, arg, ids, gets>>

\* the Components the gets produced, in position order
Components == [i \in 1..Len(gets) |-> gets[i].out]

\* mapSeries has rejected, or has run the last get
GetManyOver ==
    IF \E i \in 1..Len(gets) : gets[i].pc = "failed"
    THEN TRUE
    ELSE \A i \in 1..Len(gets) : gets[i].pc = "done"

GetManyOutcomeLenient ==
    [kind |-> "components",
     components |-> Compact([i \in 1..Len(gets) |->
                                IF gets[i].pc = "done" THEN gets[i].out ELSE Absent])]

\* what getMany settles with, lines 187-188
GetManyOutcome ==
    IF \E i \in 1..Len(gets) : gets[i].pc = "failed"
    THEN (CHOOSE o \in {gets[i].out : i \in 1..Len(gets)} : o.kind = "error")
    ELSE [kind |-> "components", components |-> Compact(Components)]

\* getMany, lines 187-188: mapSeries rejects with the first get that fails,
\* and resolves once the last get has
GetManySettles ==
    /\ InGetMany
    /\ result = Pending
    /\ GetManyOver
    /\ result' = GetManyOutcome
    /\ UNCHANGED <<hooks, ext, hashed, models, objects, consumers, op, arg, ids, gets>>

----------------------------------------------------------------------------
(* loadExtensions.                                                         *)

\* most extension ids one ExtensionDataList carries
MaxExtensions == 2

\* the legacy ids an ExtensionDataList carries
ExtensionBitIds == {<<"other", "shared">>, <<NoScope, "util">>, <<"other", "util">>}

\* ComponentID.fromLegacy(id)
FromLegacy(bitId) == [scope |-> bitId[1], name |-> bitId[2]]

\* extensions.extensionsBitIds.map(ComponentID.fromLegacy), line 119
ExtensionIds(extensions) == [i \in 1..Len(extensions) |-> FromLegacy(extensions[i])]

\* a promise of void has resolved
Void == [kind |-> "void"]

ReturnsEarlyNever(extensionIds) == FALSE

\* line 120
ReturnsEarly(extensionIds) == Len(extensionIds) = 0

\* isolator.isolateComponents(components, {}) when it succeeds: one capsule
\* for each component, in the order of the components
IsolateComponents(components) ==
    [i \in 1..Len(components) |-> [capsule |-> components[i].id]]

\* RequireableComponent.fromCapsule(capsule)
FromCapsule(capsule) == [requireable |-> capsule]

\* capsules.map(fromCapsule), line 122
RequireableExtensions(capsules) == [i \in 1..Len(capsules) |-> FromCapsule(capsules[i])]

ThrowOnErrorOff == FALSE

\* the last argument of loadRequireableExtensions, line 127
ThrowOnError == TRUE

\* loadExtensions(extensions) is called: lines 119-121, up to the first await
CallLoadExtensions(extensions) ==
    /\ op = "idle"
    /\ op' = "loadExtensions"
    /\ arg' = extensions
    /\ IF ReturnsEarly(ExtensionIds(extensions))
       THEN /\ result' = Void
            /\ UNCHANGED <<ids, gets, ext>>
       ELSE /\ EnterGetMany(ExtensionIds(extensions))
            /\ ext' = [ext EXCEPT !.stage = "hydrate"]
            /\ UNCHANGED result
    /\ UNCHANGED <<hooks, hashed, models, objects, consumers>>

\* line 121: getMany has settled; its Components go to the isolator, or its
\* error ends the call
Hydrated ==
    /\ op = "loadExtensions"
    /\ ext.stage = "hydrate"
    /\ result = Pending
    /\ GetManyOver
    /\ IF GetManyOutcome.kind = "error"
       THEN /\ result' = GetManyOutcome
            /\ UNCHANGED ext
       ELSE /\ ext' = [ext EXCEPT !.stage = "isolate",
                                  !.isolated = Append(@, GetManyOutcome.components)]
            /\ UNCHANGED result
    /\ UNCHANGED <<hooks, hashed, models, objects, consumers, op, arg, ids, gets>>

\* lines 121-127: the isolator has settled; the capsules are wrapped and go to
\* the loader, or the isolator's error ends the call
Isolated(ok) ==
    /\ op = "loadExtensions"
    /\ ext.stage = "isolate"
    /\ result = Pending
    /\ IF ok
       THEN /\ ext' = [ext EXCEPT
                        !.stage = "load",
                        !.capsules = IsolateComponents(ext.isolated[Len(ext.isolated)]),
                        !.loaded = Append(@,
                            [extensions |-> RequireableExtensions(
                                 IsolateComponents(ext.isolated[Len(ext.isolated)])),
                             throwOnError |-> ThrowOnError])]
            /\ UNCHANGED result
       ELSE /\ result' = Failure("IsolationFailed", Nullish)
            /\ UNCHANGED ext
    /\ UNCHANGED <<hooks, hashed, models, objects, consumers, op, arg, ids, gets>>

\* line 127: the loader has settled; with throwOnError it rejects when an
\* extension failed to load, without it the failure is only logged
Loaded(ok) ==
    /\ op = "loadExtensions"
    /\ ext.stage = "load"
    /\ result = Pending
    /\ result' = IF ~ok /\ ext.loaded[Len(ext.loaded)].throwOnError
                 THEN Failure("ExtensionLoadFailed", Nullish)
                 ELSE Void
    /\ ext' = [ext EXCEPT !.stage = IF ok THEN "loaded" ELSE "load"]
    /\ UNCHANGED <<hooks, hashed, models, objects, consumers, op, arg, ids, gets>>

----------------------------------------------------------------------------
(* getState and resolveComponentId.                                        *)

\* a hash under which no record is stored
UnknownHash == <<"none", "none", "none">>

\* the hashes callers hand to getState
StateHashes ==
    { <<ScopeName, "util", k>> : k \in ShortHistory }
        \cup {<<"other", "shared", "1.0.0">>, UnknownHash}

\* getState(id, hash) is called: line 207, up to the await
CallGetState(id, hash) ==
    /\ op = "idle"
    /\ op' = "getState"
    /\ arg' = [id |-> id, hash |-> hash]
    /\ hashed' = [pc |-> "load", version |-> NoVersion]
    /\ UNCHANGED <<hooks, ext, models, objects, consumers, ids, gets, result>>

\* lines 207-208 and 253: objects.load(new Ref(hash)) has settled, with the
\* record or with nothing; createStateFromVersion awaits getConsumerComponent
HashLoaded ==
    /\ op = "getState"
    /\ hashed.pc = "load"
    /\ hashed' = [pc |-> "state", version |-> LoadObject(arg.hash)]
    /\ UNCHANGED <<hooks, ext, models, objects, consumers, op, arg, ids, gets, result>>

NewStateOrAbsent(id, version) ==
    IF version = NoVersion THEN Absent
    ELSE [kind |-> "state", state |-> CreateState(id, version)]

\* lines 254-262: new State(new Config(version.mainFile, ...), ...) throws a
\* TypeError when no record was loaded, as version is then undefined
NewState(id, version) ==
    IF version = NoVersion THEN Failure("TypeError", id)
    ELSE [kind |-> "state", state |-> CreateState(id, version)]

\* lines 253-262: getConsumerComponent has settled; its error ends the call,
\* and so does reading mainFile of a record that was not loaded
StateFromHash ==
    /\ op = "getState"
    /\ hashed.pc = "state"
    /\ result = Pending
    /\ result' = IF ~ConsumerAvailable(arg.id)
                 THEN Failure("ComponentRecordUnavailable", arg.id)
                 ELSE NewState(arg.id, hashed.version)
    /\ UNCHANGED <<hooks, ext, hashed, models, objects, consumers, op, arg, ids, gets>>

\* a string a caller typed
Text(string) == [text |-> string]

\* what callers hand to resolveComponentId: strings and ComponentIDs
IdLikes == {Text("util"), Text("other/shared"), Text("other/"), Text("")} \cup ComponentIDs

\* id.toString(), as the parts between the slashes
IdToString(idLike) ==
    IF "text" \notin DOMAIN idLike
    THEN IF idLike.scope = NoScope THEN <<idLike.name>> ELSE <<idLike.scope, idLike.name>>
    ELSE CASE idLike.text = "util" -> <<"util">>
           [] idLike.text = "other/shared" -> <<"other", "shared">>
           [] idLike.text = "other/" -> <<"other", "">>
           [] OTHER -> <<>>

\* legacyScope.getParsedId(string): the legacy id the string names, or
\* Nullish when the string is not a well-formed identifier
GetParsedId(parts) ==
    IF parts = <<>> THEN Nullish
    ELSE IF parts[Len(parts)] = "" THEN Nullish
    ELSE IF Len(parts) = 1 THEN <<NoScope, parts[1]>>
    ELSE <<parts[1], parts[2]>>

\* resolveComponentId(id) is called: line 216, up to the await
CallResolveComponentId(idLike) ==
    /\ op = "idle"
    /\ op' = "resolveComponentId"
    /\ arg' = idLike
    /\ UNCHANGED <<hooks, ext, hashed, models, objects, consumers, ids, gets, result>>

\* lines 216-217: getParsedId has settled
IdParsed ==
    /\ op = "resolveComponentId"
    /\ result = Pending
    /\ result' = IF GetParsedId(IdToString(arg)) = Nullish
                 THEN Failure("InvalidBitId", arg)
                 ELSE [kind |-> "id", id |-> FromLegacy(GetParsedId(IdToString(arg)))]
    /\ UNCHANGED <<hooks, ext, hashed, models, objects, consumers, op, arg, ids, gets>>

----------------------------------------------------------------------------
(* The hooks and the placeholders.                                         *)

\* most callbacks registered to one slot
MaxHooks == 2

\* the functions callers register
Callbacks == {"f", "g"}

PushFront(array, fn) == <<fn>> \o array

\* Array.prototype.push
Push(array, fn) == Append(array, fn)

\* registry.register(fn): the registrations the slot received, in order
Register(registry, fn) == Append(registry, fn)

\* onTag(tagFn), lines 89-92
OnTag(tagFn) ==
    /\ op = "idle"
    /\ Len(hooks.onTag) < MaxHooks
    /\ op' = "onTag"
    /\ arg' = tagFn
    /\ hooks' = [hooks EXCEPT !.onTag = Push(@, tagFn),
                              !.tagRegistry = Register(@, tagFn)]
    /\ result' = Void
    /\ UNCHANGED <<ext, hashed, models, objects, consumers, ids, gets>>

\* onPostExport(postExportFn), lines 97-100
OnPostExport(postExportFn) ==
    /\ op = "idle"
    /\ Len(hooks.onPostExport) < MaxHooks
    /\ op' = "onPostExport"
    /\ arg' = postExportFn
    /\ hooks' = [hooks EXCEPT !.onPostExport = Push(@, postExportFn),
                              !.postExportRegistry = Register(@, postExportFn)]
    /\ result' = Void
    /\ UNCHANGED <<ext, hashed, models, objects, consumers, ids, gets>>

\* the ids callers hand to fetch, the components they hand to persist
FetchIds == {<<>>, <<[scope |-> ScopeName, name |-> "util"]>>}

FetchedObjectsImported(fetchIds) ==
    objects \cup { <<fetchIds[i].scope, fetchIds[i].name, "1.0.0">> : i \in 1..Len(fetchIds) }

\* the objects of the scope after fetch(ids): the body of fetch is empty
FetchedObjects(fetchIds) == objects

\* the ModelComponents of the scope after persist(components, options): the
\* body of persist is empty
PersistedModels(components) == models

\* fetch(ids), line 108
Fetch(fetchIds) ==
    /\ op = "idle"
    /\ op' = "fetch"
    /\ arg' = fetchIds
    /\ objects' = FetchedObjects(fetchIds)
    /\ result' = Void
    /\ UNCHANGED <<hooks, ext, hashed, models, consumers, ids, gets>>

\* persist(components, options), line 116
Persist(components) ==
    /\ op = "idle"
    /\ op' = "persist"
    /\ arg' = components
    /\ models' = PersistedModels(components)
    /\ result' = Void
    /\ UNCHANGED <<hooks, ext, hashed, objects, consumers, ids, gets>>

\* the caller has its outcome; the factory is idle again
Return ==
    /\ op # "idle"
    /\ result # Pending
    /\ op' = "idle"
    /\ arg' = Absent
    /\ ids' = <<>>
    /\ gets' = <<>>
    /\ result' = Pending
    /\ ext' = NoExt
    /\ hashed' = NoHashed
    /\ UNCHANGED <<models, objects, consumers, hooks>>

Next ==
    \/ \E id \in ComponentIDs : CallGet(id)
    \/ \E id \in ComponentIDs : CallGetOrThrow(id)
    \/ \E input \in SeqsUpTo(InputEntries, MaxIds) : CallGetMany(input)
    \/ \E filter \in Filters, includeCache \in BOOLEAN : CallList(filter, includeCache)
    \/ ListModels
    \/ \E i \in 1..MaxFrames : StartGet(i)
    \/ \E i \in 1..MaxFrames : Lookup1(i)
    \/ \E i \in 1..MaxFrames : Lookup2(i)
    \/ \E i \in 1..MaxFrames : LoadLatest(i)
    \/ \E i \in 1..MaxFrames : CreateStateFromVersion(i)
    \/ \E i \in 1..MaxFrames, versionStr \in VersionStrs : TagLoaded(i, versionStr)
    \/ GetSettles
    \/ GetOrThrowSettles
    \/ GetManySettles
    \/ \E id \in ComponentIDs, hash \in StateHashes : CallGetState(id, hash)
    \/ HashLoaded
    \/ StateFromHash
    \/ Return

Spec == Init /\ [][Next]_vars

\* single gets over every history of a component
NextHistory ==
    \/ \E id \in ComponentIDs : CallGet(id)
    \/ \E id \in ComponentIDs : CallGetOrThrow(id)
    \/ Lookup1(1)
    \/ Lookup2(1)
    \/ LoadLatest(1)
    \/ CreateStateFromVersion(1)
    \/ \E versionStr \in VersionStrs : TagLoaded(1, versionStr)
    \/ GetSettles
    \/ GetOrThrowSettles
    \/ Return

SpecHistory == InitHistory /\ [][NextHistory]_vars

\* the ids of "util" that carry an explicit version
VersionedIDs ==
    { [scope |-> scope, name |-> "util", version |-> versionStr] :
         scope \in {NoScope, ScopeName}, versionStr \in VersionStrs }

\* single gets of ids with and without an explicit version, over every
\* history of a component
NextVersions ==
    \/ \E id \in VersionedIDs \cup ComponentIDs : CallGet(id)
    \/ Lookup1(1)
    \/ Lookup2(1)
    \/ LoadLatest(1)
    \/ CreateStateFromVersion(1)
    \/ \E versionStr \in VersionStrs : TagLoaded(1, versionStr)
    \/ GetSettles
    \/ Return

SpecVersions == InitHistory /\ [][NextVersions]_vars

\* the plugin bootstrap: loadExtensions over every store of Init
NextExtensions ==
    \/ \E extensions \in SeqsUpTo(ExtensionBitIds, MaxExtensions) :
          CallLoadExtensions(extensions)
    \/ \E i \in 1..MaxFrames : StartGet(i)
    \/ \E i \in 1..MaxFrames : Lookup1(i)
    \/ \E i \in 1..MaxFrames : Lookup2(i)
    \/ \E i \in 1..MaxFrames : LoadLatest(i)
    \/ \E i \in 1..MaxFrames : CreateStateFromVersion(i)
    \/ \E i \in 1..MaxFrames, versionStr \in VersionStrs : TagLoaded(i, versionStr)
    \/ Hydrated
    \/ \E ok \in BOOLEAN : Isolated(ok)
    \/ \E ok \in BOOLEAN : Loaded(ok)
    \/ Return

SpecExtensions == Init /\ [][NextExtensions]_vars

\* the scopes the hooks are exercised on: "util" with the single version
\* "1.0.0", its record stored or missing, with or without a consumer record
InitHooks ==
    /\ Idle
    /\ hooks = NoHooks
    /\ \E missing \in SUBSET {"1.0.0"}, noConsumer \in SUBSET {"util"} :
          StoreIs(HistorySlots, {"1.0.0"}, "1.0.0", missing, noConsumer)

\* the arrays of ids the calls carry while the hooks are exercised
HookedInputs == {<<>>} \cup { <<entry>> : entry \in InputEntries }

HookedExtensions == {<<>>} \cup { <<bitId>> : bitId \in ExtensionBitIds }

\* every operation of the scope
NextHooks ==
    \/ \E fn \in Callbacks : OnTag(fn)
    \/ \E fn \in Callbacks : OnPostExport(fn)
    \/ \E fetchIds \in FetchIds : Fetch(fetchIds)
    \/ \E components \in FetchIds : Persist(components)
    \/ \E id \in ComponentIDs : CallGet(id)
    \/ \E id \in ComponentIDs : CallGetOrThrow(id)
    \/ \E input \in HookedInputs : CallGetMany(input)
    \/ \E includeCache \in BOOLEAN : CallList(NoFilter, includeCache)
    \/ ListModels
    \/ \E id \in ComponentIDs, hash \in StateHashes : CallGetState(id, hash)
    \/ \E idLike \in IdLikes : CallResolveComponentId(idLike)
    \/ \E extensions \in HookedExtensions : CallLoadExtensions(extensions)
    \/ \E i \in 1..MaxFrames : StartGet(i)
    \/ \E i \in 1..MaxFrames : Lookup1(i)
    \/ \E i \in 1..MaxFrames : Lookup2(i)
    \/ \E i \in 1..MaxFrames : LoadLatest(i)
    \/ \E i \in 1..MaxFrames : CreateStateFromVersion(i)
    \/ \E i \in 1..MaxFrames, versionStr \in VersionStrs : TagLoaded(i, versionStr)
    \/ GetSettles
    \/ GetOrThrowSettles
    \/ GetManySettles
    \/ HashLoaded
    \/ StateFromHash
    \/ IdParsed
    \/ Hydrated
    \/ \E ok \in BOOLEAN : Isolated(ok)
    \/ \E ok \in BOOLEAN : Loaded(ok)
    \/ Return

SpecHooks == InitHooks /\ [][NextHooks]_vars

----------------------------------------------------------------------------
(* Properties of get and getOrThrow.                                       *)

\* what the store holds under a legacy id
Stored(slot) == IF slot \in DOMAIN models THEN models[slot] ELSE NoModel

\* the id rebound to this scope's own name
Rebound(id) == [scope |-> ScopeName, name |-> id.name]

\* id carries no scope, nothing is stored under it, something is stored
\* under it rebound
RebindCase(id) ==
    /\ id.scope = NoScope
    /\ Stored(<<NoScope, id.name>>) = NoModel
    /\ Stored(<<ScopeName, id.name>>) # NoModel

\* nothing is stored under id, and id is scoped or nothing is stored under
\* it rebound
NothingMatches(id) ==
    /\ Stored(<<id.scope, id.name>>) = NoModel
    /\ id.scope # NoScope \/ Stored(<<ScopeName, id.name>>) = NoModel

\* component c is built from ModelComponent m under id: its head is the Snap
\* of m's latest Version, its state is assembled for id, and each of its tags
\* is the Snap of one of m's Versions
BuiltFrom(c, m, id) ==
    /\ c.kind = "component"
    /\ c.id = id
    /\ c.head.hash = m.versions[m.latest]
    /\ c.state.consumer = <<id.scope, id.name>>
    /\ \A k \in DOMAIN c.tags :
          /\ k.raw \in DOMAIN m.versions
          /\ c.tags[k].snap.hash = m.versions[k.raw]

\* C1 (as stated): when nothing is stored under an unscoped id and a
\* ModelComponent is stored under the id rebound to this scope's name, get(id)
\* returns a Component built from that ModelComponent.
C1_AlwaysReturnsRebound ==
    (op = "get" /\ result # Pending /\ RebindCase(arg))
        => BuiltFrom(result, Stored(<<ScopeName, arg.name>>), Rebound(arg))

\* C1 (amended): in that case get(id) never returns absent: it either fails
\* with an error raised while the Component is assembled, or returns a
\* Component built from the ModelComponent stored under the rebound id.
C1_ReboundNeverAbsent ==
    (op = "get" /\ result # Pending /\ RebindCase(arg))
        => /\ result # Absent
           /\ gets[1].looked = << <<NoScope, arg.name>>, <<ScopeName, arg.name>> >>
           /\ result.kind # "error"
                 => BuiltFrom(result, Stored(<<ScopeName, arg.name>>), Rebound(arg))

C1_Witness ==
    /\ op = "get"
    /\ RebindCase(arg)
    /\ result.kind = "component"
    /\ result.id = Rebound(arg)

\* C2: a get returns absent exactly when nothing is stored under the id and
\* the id is scoped or nothing is stored under it rebound; a scoped id is
\* looked up once, under itself; no get looks up more than twice.
C2_AbsentExactly ==
    \A i \in 1..Len(gets) :
        /\ Len(gets[i].looked) <= 2
        /\ gets[i].asked.scope # NoScope /\ gets[i].pc # "waiting"
              => gets[i].looked \in {<<>>, << <<gets[i].asked.scope, gets[i].asked.name>> >>}
        /\ gets[i].pc \in {"done", "failed"}
              => (gets[i].out = Absent <=> NothingMatches(gets[i].asked))
        /\ gets[i].pc \in {"done", "failed"} /\ gets[i].asked.scope # NoScope
              => gets[i].looked = << <<gets[i].asked.scope, gets[i].asked.name>> >>

\* a scoped id with nothing under it is absent although this scope owns a
\* component of that name
C2_Witness ==
    /\ op = "get"
    /\ arg.scope = "other"
    /\ Stored(<<"other", arg.name>>) = NoModel
    /\ Stored(<<ScopeName, arg.name>>) # NoModel
    /\ result = Absent

\* C3: getOrThrow(id) fails with ComponentNotFound carrying the id the caller
\* passed whenever nothing matches id, and otherwise settles as get(id) does.
C3_NotFoundCarriesId ==
    (op = "getOrThrow" /\ result # Pending)
        => IF NothingMatches(arg)
           THEN result = [kind |-> "error", error |-> "ComponentNotFound", id |-> arg]
           ELSE /\ result = gets[1].out
                /\ result # Absent
                /\ ~(result.kind = "error" /\ result.error = "ComponentNotFound")

\* nothing matches an unscoped id, which get rebound before giving up
C3_Witness ==
    /\ op = "getOrThrow"
    /\ arg.scope = NoScope
    /\ Len(gets) = 1
    /\ gets[1].id # arg
    /\ result = [kind |-> "error", error |-> "ComponentNotFound", id |-> arg]

----------------------------------------------------------------------------
(* Properties of getMany and list.                                         *)

IsEntry(e) == e # Nullish

IsPresent(o) == o # Absent

\* the id under which get finds the component of id, if it finds one
ResolvedId(id) ==
    IF Stored(<<id.scope, id.name>>) = NoModel /\ id.scope = NoScope
    THEN Rebound(id) ELSE id

\* frame i settled with what get returns for the id it was asked for
SettledAsGet(i) ==
    /\ gets[i].pc = "done"
    /\ gets[i].out = Absent <=> NothingMatches(gets[i].asked)
    /\ gets[i].out # Absent
          => BuiltFrom(gets[i].out,
                       Stored(<<ResolvedId(gets[i].asked).scope, gets[i].asked.name>>),
                       ResolvedId(gets[i].asked))

\* C4: when getMany(ids) succeeds, its result is the Components get returns
\* for the non-empty entries of ids, in input order, with the absent ones
\* removed; it is no longer than the number of non-empty entries.
C4_GetManyOrdered ==
    (op = "getMany" /\ result.kind = "components")
        => LET wanted == SelectSeq(arg, IsEntry)
               outs == [i \in 1..Len(gets) |-> gets[i].out]
           IN  /\ Len(gets) = Len(wanted)
               /\ \A i \in 1..Len(gets) : gets[i].asked = wanted[i] /\ SettledAsGet(i)
               /\ result.components = SelectSeq(outs, IsPresent)
               /\ Len(result.components) <= Len(wanted)

\* getMany([a, absent-id, b]) returned [Component(a), Component(b)]
C4_Witness ==
    /\ op = "getMany"
    /\ Len(arg) = 3
    /\ result.kind = "components"
    /\ Len(gets) = 3
    /\ gets[2].out = Absent
    /\ Len(result.components) = 2
    /\ result.components[1].id.name = arg[1].name
    /\ result.components[2].id.name = arg[3].name
    /\ arg[1].name # arg[3].name

\* a get is in flight: it has started and not settled, or loads it issued
\* are still outstanding
InFlight(i) ==
    \/ gets[i].pc \in {"lookup1", "lookup2", "loadLatest", "state", "tags"}
    \/ gets[i].pending # {}

\* C5: within one getMany the gets run one after the other in input order:
\* at most one is in flight, and the get of a position has issued nothing
\* before the gets of all earlier positions have completed, tag-map loads
\* included.
C5_Sequential ==
    /\ Cardinality({i \in 1..Len(gets) : InFlight(i)}) <= 1
    /\ \A i, j \in 1..Len(gets) :
          (i < j /\ gets[j].pc # "waiting")
              => gets[i].pc = "done" /\ gets[i].pending = {}

\* the second get has issued its first read after the first get assembled a
\* Component with two tags
C5_Witness ==
    /\ op = "getMany"
    /\ Len(gets) >= 2
    /\ gets[1].pc = "done"
    /\ gets[1].out # Absent
    /\ Cardinality(DOMAIN gets[1].tagMap) = 2
    /\ gets[2].pc = "lookup1"

IsHeld(slot) == Stored(slot) # NoModel

IsOwned(slot) == Stored(slot) # NoModel /\ slot[1] = ScopeName

\* the legacy ids of a sequence of Components
LegacyIds(components) ==
    [i \in 1..Len(components) |-> <<components[i].id.scope, components[i].id.name>>]

\* C6: list with includeCache=false returns only Components whose
\* ModelComponent is owned by this scope (all of them when there is no
\* filter); list with includeCache=true returns Components of stored
\* ModelComponents whatever their owner (all of them when there is no filter).
C6_ListOwnership ==
    (op = "list" /\ result.kind = "components")
        => LET got == LegacyIds(result.components)
           IN  IF arg.includeCache
               THEN /\ \A i \in 1..Len(got) : IsHeld(got[i])
                    /\ arg.filter = NoFilter => got = SelectSeq(SlotOrder, IsHeld)
               ELSE /\ \A i \in 1..Len(got) : IsOwned(got[i])
                    /\ arg.filter = NoFilter => got = SelectSeq(SlotOrder, IsOwned)

\* util is owned by this scope, shared is cached from another: list() returned
\* only util
C6_Witness ==
    /\ op = "list"
    /\ ~arg.includeCache
    /\ arg.filter = NoFilter
    /\ SelectSeq(SlotOrder, IsHeld) = << <<ScopeName, "util">>, <<"other", "shared">> >>
    /\ result.kind = "components"
    /\ LegacyIds(result.components) = << <<ScopeName, "util">> >>

\* the same store: list(undefined, true) returned both
C6_CacheWitness ==
    /\ op = "list"
    /\ arg.includeCache
    /\ arg.filter = NoFilter
    /\ result.kind = "components"
    /\ LegacyIds(result.components) = << <<ScopeName, "util">>, <<"other", "shared">> >>

\* the full ordered listing list paginates
FullListing(includeCache) ==
    IF includeCache THEN SelectSeq(SlotOrder, IsHeld) ELSE SelectSeq(SlotOrder, IsOwned)

\* the entries of a listing from index offset, at most limit of them
Page(listing, offset, limit) ==
    LET n == IF Len(listing) - offset < limit THEN Len(listing) - offset ELSE limit
    IN  [i \in 1..(IF n < 0 THEN 0 ELSE n) |-> listing[offset + i]]

\* C7: for every filter {offset, limit}, limit = 0 included, list(filter)
\* returns at most limit Components: those of the slice of the full listing
\* that starts at offset and has length limit.
C7_PageOfListing ==
    (op = "list" /\ result.kind = "components" /\ arg.filter # NoFilter)
        => /\ Len(result.components) <= arg.filter.limit
           /\ LegacyIds(result.components)
                = Page(FullListing(arg.includeCache), arg.filter.offset, arg.filter.limit)

\* what the code does hold to: the page, for every filter whose limit is not 0
ListPagePositiveLimit ==
    (op = "list" /\ result.kind = "components" /\ arg.filter # NoFilter
        /\ arg.filter.limit # 0)
        => /\ Len(result.components) <= arg.filter.limit
           /\ LegacyIds(result.components)
                = Page(FullListing(arg.includeCache), arg.filter.offset, arg.filter.limit)

----------------------------------------------------------------------------
(* Properties of the tag map.                                              *)

\* the version keys of a ModelComponent whose Version record can be loaded
Loadable(m) == {k \in DOMAIN m.versions : m.versions[k] \in objects}

AllValid(m) == \A k \in DOMAIN m.versions : SemVerValid(k)

\* tagMap holds one Tag per key of keys and no other: the Tag of a key pairs
\* the key's semantic version with the Snap of the key's Version
TagsExactly(tagMap, m, keys) ==
    /\ Cardinality(DOMAIN tagMap) = Cardinality(keys)
    /\ {e.raw : e \in DOMAIN tagMap} = keys
    /\ \A e \in DOMAIN tagMap :
          /\ tagMap[e].version = e
          /\ e.version = SemVerParse(e.raw)
          /\ e.version # "invalid"
          /\ tagMap[e].snap.hash = m.versions[e.raw]
          /\ tagMap[e].snap = CreateSnapFromVersion(VersionOf(m.versions[e.raw]))

\* C8: for a ModelComponent whose N version keys are all valid semver and of
\* which M have a loadable Version, the tag map is built without error and
\* has exactly M entries, one per loadable key, whatever the order in which
\* the loads complete; while the loads are outstanding it holds the entries
\* of the loadable keys that have completed.
C8_TagMapExact ==
    \A i \in 1..Len(gets) :
        (gets[i].pc \in {"tags", "done"} /\ gets[i].modelComponent # NoModel
            /\ gets[i].state # Absent /\ AllValid(gets[i].modelComponent))
            => LET m == gets[i].modelComponent
               IN  /\ TagsExactly(gets[i].tagMap, m, Loadable(m) \ gets[i].pending)
                   /\ gets[i].pc = "tags" => gets[i].pending # {}
                   /\ gets[i].pc = "done"
                         => /\ gets[i].pending = {}
                            /\ gets[i].out.kind = "component"
                            /\ TagsExactly(gets[i].out.tags, m, Loadable(m))

\* three valid keys, "1.0.0" and "v1.0.0" among them, two of them loadable
C8_Witness ==
    /\ Len(gets) = 1
    /\ gets[1].pc = "done"
    /\ gets[1].out # Absent
    /\ DOMAIN gets[1].modelComponent.versions = {"1.0.0", "v1.0.0", "2.0.0"}
    /\ Loadable(gets[1].modelComponent) = {"1.0.0", "v1.0.0"}
    /\ Cardinality(DOMAIN gets[1].out.tags) = 2

\* C9: when a version key of a ModelComponent is not valid semver, building
\* its tag map fails, whether or not the key's Version can be loaded: no get
\* returns a Component of such a ModelComponent.
C9_InvalidKeyFails ==
    \A i \in 1..Len(gets) :
        (gets[i].pc = "done" /\ gets[i].out # Absent)
            => AllValid(gets[i].modelComponent)

\* what the code does hold to: an invalid key whose Version loads is fatal
InvalidLoadedKeyFails ==
    \A i \in 1..Len(gets) :
        (gets[i].pc = "done" /\ gets[i].out # Absent)
            => \A k \in Loadable(gets[i].modelComponent) : SemVerValid(k)

\* the ModelComponent get finds for id, its latest Version and the consumer
\* record are all there
CurrentStateAvailable(id) ==
    LET m == Stored(<<ResolvedId(id).scope, id.name>>)
    IN  /\ m # NoModel
        /\ m.versions[m.latest] \in objects
        /\ <<ResolvedId(id).scope, id.name>> \in consumers

\* C10 (as stated): whenever the ModelComponent of id exists, its latest
\* Version loads and the consumer record is available, get(id) returns a
\* Component, whichever other Version records fail to load.
C10_GapsNeverBlock ==
    \A i \in 1..Len(gets) :
        (gets[i].pc \in {"done", "failed"} /\ CurrentStateAvailable(gets[i].asked))
            => gets[i].out.kind = "component"

\* C10 (amended): the same for a ModelComponent whose version keys are all
\* valid semver; the versions whose record fails to load are missing from the
\* Component's tags, and only they.
C10_GapsNeverBlockValidKeys ==
    \A i \in 1..Len(gets) :
        LET m == Stored(<<ResolvedId(gets[i].asked).scope, gets[i].asked.name>>)
        IN  (gets[i].pc \in {"done", "failed"} /\ CurrentStateAvailable(gets[i].asked)
                /\ AllValid(m))
                => /\ gets[i].out.kind = "component"
                   /\ gets[i].out.head.hash = m.versions[m.latest]
                   /\ {e.raw : e \in DOMAIN gets[i].out.tags} = Loadable(m)

\* a Component was returned although two of the three Versions are missing
C10_Witness ==
    /\ op = "get"
    /\ result.kind = "component"
    /\ Cardinality(DOMAIN gets[1].modelComponent.versions) = 3
    /\ Cardinality(Loadable(gets[1].modelComponent)) = 1
    /\ Cardinality(DOMAIN result.tags) = 1

----------------------------------------------------------------------------
(* Properties of loadExtensions.                                           *)

\* C11: loadExtensions called with an empty extension set is a pure no-op:
\* it resolves at once, no get is started (so no ModelComponent, Version or
\* consumer record is read), and neither the isolator nor the loader of
\* requireable extensions is called.
C11_EmptySetNoOp ==
    (op = "loadExtensions" /\ arg = <<>>) =>
        /\ result = Void
        /\ gets = <<>>
        /\ ids = <<>>
        /\ ext = NoExt

\* loadExtensions was called with an empty set and has resolved
C11_Witness == op = "loadExtensions" /\ arg = <<>> /\ result = Void

\* the capsules whose requireable handles went to the loader
LoadedCapsules ==
    IF ext.loaded = <<>> THEN <<>>
    ELSE [i \in 1..Len(ext.loaded[1].extensions) |->
             ext.loaded[1].extensions[i].requireable.capsule]

\* C12: loadExtensions never succeeds with a partial extension set: when it
\* resolves, every id of the set was hydrated into a Component, isolated and
\* handed to the loader, one capsule for each id in the order of the set.
C12_NoPartialSet ==
    (op = "loadExtensions" /\ result = Void) =>
        /\ Len(LoadedCapsules) = Len(arg)
        /\ \A i \in 1..Len(arg) :
              /\ ~NothingMatches(FromLegacy(arg[i]))
              /\ Legacy(LoadedCapsules[i]) = Legacy(ResolvedId(FromLegacy(arg[i])))

\* loadExtensions resolved although one of two ids resolves to nothing
C12_PartialSetLoaded ==
    /\ op = "loadExtensions"
    /\ result = Void
    /\ Len(arg) = 2
    /\ Len(LoadedCapsules) = 1

\* C17: a loadExtensions call with a non-empty set runs hydrate, isolate,
\* load in that order.  The isolator is called at most once, only when every
\* get of getMany is done, with the Components getMany resolved with; the
\* loader is called at most once, only after the isolator returned its
\* capsules, with throwOnError and with one requireable handle for each
\* capsule in the order of the capsules.  The call resolves only when the
\* loader did, after exactly one call of each; when it rejects with the
\* error of a get, neither isolator nor loader was called, and when it
\* rejects with the error of the isolator, the loader was not called.
C17_StagesInOrder ==
    (op = "loadExtensions" /\ arg # <<>>) =>
        /\ Len(ext.isolated) <= 1
        /\ Len(ext.loaded) <= 1
        /\ ext.isolated # <<>> =>
              /\ \A i \in 1..Len(gets) : gets[i].pc = "done"
              /\ ext.isolated[1] = Compact(Components)
        /\ ext.loaded # <<>> =>
              /\ ext.isolated # <<>>
              /\ Len(ext.capsules) = Len(ext.isolated[1])
              /\ ext.loaded[1].throwOnError
              /\ Len(ext.loaded[1].extensions) = Len(ext.capsules)
              /\ \A i \in 1..Len(ext.capsules) :
                    ext.loaded[1].extensions[i] = FromCapsule(ext.capsules[i])
        /\ ext.loaded = <<>> => ext.capsules = <<>>
        /\ result = Void =>
              /\ ext.stage = "loaded"
              /\ Len(ext.isolated) = 1
              /\ Len(ext.loaded) = 1
        /\ (\E i \in 1..Len(gets) : gets[i].pc = "failed") =>
              /\ ext.isolated = <<>>
              /\ ext.loaded = <<>>
              /\ result # Pending => result = GetManyOutcome
        /\ (result.kind = "error" /\ result.error = "IsolationFailed") =>
              /\ ext.stage = "isolate"
              /\ ext.loaded = <<>>
        /\ (result.kind = "error" /\ result.error = "ExtensionLoadFailed") =>
              ext.stage = "load"

\* loadExtensions resolved for two extensions, both isolated and loaded
C17_Witness ==
    /\ op = "loadExtensions"
    /\ Len(arg) = 2
    /\ arg[1] # arg[2]
    /\ result = Void
    /\ Len(ext.capsules) = 2
    /\ Len(ext.loaded) = 1

\* loadExtensions rejected because the loader failed
C17_LoaderFailed ==
    /\ op = "loadExtensions"
    /\ result.kind = "error"
    /\ result.error = "ExtensionLoadFailed"

----------------------------------------------------------------------------
(* Properties of the consumer record.                                      *)

\* the ModelComponent the get of frame i resolves to
ResolvedModel(i) == Stored(Legacy(ResolvedId(gets[i].asked)))

\* the get of frame i reaches getConsumerComponent, which fails: a
\* ModelComponent is found, its latest Version loads, and no consumer record
\* can be produced for the id
ConsumerFails(i) ==
    /\ ResolvedModel(i) # NoModel
    /\ LoadVersion(ResolvedModel(i), Latest(ResolvedModel(i))) # NoVersion
    /\ Legacy(ResolvedId(gets[i].asked)) \notin consumers

\* C18: a failure of getConsumerComponent is propagated.  A get whose
\* ModelComponent exists and whose consumer record cannot be produced never
\* settles absent nor with a Component, and settles with the error of
\* getConsumerComponent whenever it reaches that call; get and getOrThrow
\* settle with the error of their frame; getState settles with the error of
\* getConsumerComponent for every hash; and a getMany (or list) holding such
\* a get settles with its error, without Components, the gets after it never
\* started.
C18_ConsumerFailurePropagates ==
    /\ \A i \in 1..Len(gets) :
          /\ (gets[i].pc \in {"done", "failed"} /\ ResolvedModel(i) # NoModel
                 /\ Legacy(ResolvedId(gets[i].asked)) \notin consumers)
                => (gets[i].pc = "failed" /\ gets[i].out.kind = "error")
          /\ (gets[i].pc \in {"done", "failed"} /\ ConsumerFails(i))
                => /\ gets[i].out =
                         Failure("ComponentRecordUnavailable", ResolvedId(gets[i].asked))
                   /\ \A j \in (i + 1)..Len(gets) : gets[j].pc = "waiting"
                   /\ result # Pending => result = gets[i].out
    /\ (op = "getState" /\ result # Pending /\ Legacy(arg.id) \notin consumers)
          => result = Failure("ComponentRecordUnavailable", arg.id)

\* getMany failed with the error of getConsumerComponent for its first id,
\* its second id never looked up
C18_Witness ==
    /\ op = "getMany"
    /\ Len(gets) >= 2
    /\ ConsumerFails(1)
    /\ result = Failure("ComponentRecordUnavailable", ResolvedId(gets[1].asked))
    /\ gets[2].pc = "waiting"

\* get failed with the error of getConsumerComponent
C18_GetWitness ==
    /\ op = "get"
    /\ ConsumerFails(1)
    /\ result.kind = "error"

\* getState failed with the error of getConsumerComponent for a stored hash
C18_GetStateWitness ==
    /\ op = "getState"
    /\ arg.hash \in objects
    /\ Legacy(arg.id) \notin consumers
    /\ Stored(Legacy(arg.id)) # NoModel
    /\ result.kind = "error"

\* C19: every Component get returns is version-coherent: its head Snap, the
\* dependency set of its state and the consumer record of its state belong to
\* the latest version of its ModelComponent, whether or not the id carries an
\* explicit version; and one of its tags holds the Snap of its head.
C19_VersionCoherent ==
    (op = "get" /\ result.kind = "component") =>
        LET modelComponent == ResolvedModel(1)
            latest == Latest(modelComponent)
        IN  /\ result.head.hash = modelComponent.versions[latest]
            /\ result.state.dependencies
                  = VersionOf(modelComponent.versions[latest]).dependencies
            /\ result.state.consumerVersion = latest
            /\ \E k \in DOMAIN result.tags : result.tags[k].snap.hash = result.head.hash

\* what holds of every id: head, dependency set and one tag belong to the
\* latest version, and the consumer record to the version the id carries
C19_CoherentButConsumer ==
    (op = "get" /\ result.kind = "component") =>
        LET modelComponent == ResolvedModel(1)
            latest == Latest(modelComponent)
        IN  /\ result.head.hash = modelComponent.versions[latest]
            /\ result.state.dependencies
                  = VersionOf(modelComponent.versions[latest]).dependencies
            /\ result.state.consumerVersion = IF HasVersion(arg) THEN arg.version ELSE latest
            /\ \E k \in DOMAIN result.tags : result.tags[k].snap.hash = result.head.hash

\* get returned a Component for an id that carries a version other than the
\* latest
C19_NonLatestReturned ==
    /\ op = "get"
    /\ result.kind = "component"
    /\ HasVersion(arg)
    /\ arg.version # Latest(ResolvedModel(1))

----------------------------------------------------------------------------
(* Properties of the Snap.                                                 *)

\* the parts of a Snap that do not depend on the message: the hash is the
\* Version's, there are no parents, the date is the instant the log's epoch
\* string denotes, and the author is the log's where the log names one ("" is
\* a field the log does not carry) and the sentinels where it does not
SnapOfVersion(snap, version) ==
    /\ snap.hash = version.hash
    /\ snap.parents = <<>>
    /\ snap.date = [time |-> version.log.date]
    /\ snap.author.displayName =
          IF version.log.username = "" THEN "unknown" ELSE version.log.username
    /\ snap.author.email =
          IF version.log.email = "" THEN "unknown@anywhere" ELSE version.log.email

\* the message of the Snap is a default when the log carries none
MessageDefaulted(snap, version) ==
    IF version.log.message = "" THEN snap.message # "" ELSE snap.message = version.log.message

\* the message of the Snap is the one of the log, absent when that is absent
MessagePassedThrough(snap, version) == snap.message = version.log.message

----------------------------------------------------------------------------
(* Properties of the hooks and of the store.                               *)

\* C13: the hook registries are append-only and order-preserving: a call of
\* onTag appends its argument at the end of the tag callbacks (and of the
\* registrations of the tag slot) and leaves the post-export callbacks as
\* they are, a call of onPostExport does the same the other way round, and
\* no other step of any operation changes a registry.  So each list is the
\* sequence of the arguments of its calls, in call order, duplicates kept.
C13_HooksAppendOnly ==
    [][ IF op = "idle" /\ op' = "onTag"
        THEN /\ hooks'.onTag = Append(hooks.onTag, arg')
             /\ hooks'.tagRegistry = Append(hooks.tagRegistry, arg')
             /\ hooks'.onPostExport = hooks.onPostExport
             /\ hooks'.postExportRegistry = hooks.postExportRegistry
        ELSE IF op = "idle" /\ op' = "onPostExport"
             THEN /\ hooks'.onPostExport = Append(hooks.onPostExport, arg')
                  /\ hooks'.postExportRegistry = Append(hooks.postExportRegistry, arg')
                  /\ hooks'.onTag = hooks.onTag
                  /\ hooks'.tagRegistry = hooks.tagRegistry
             ELSE hooks' = hooks ]_vars

\* the same callback was registered twice to the tag slot, and two callbacks
\* to the post-export slot in the order g, f
C13_Witness ==
    /\ hooks.onTag = <<"f", "f">>
    /\ hooks.onPostExport = <<"g", "f">>
    /\ op = "onPostExport"

----------------------------------------------------------------------------
(* Properties of getState.                                                 *)

\* C15: getState(id, hash) fails when no Version record is stored under
\* hash: it settles with an error, never with a State nor with nothing, for
\* every id, those whose consumer record is available included.
C15_MissingHashFails ==
    (op = "getState" /\ result # Pending /\ arg.hash \notin objects)
        => result.kind = "error"

\* getState failed for a hash nothing is stored under although the consumer
\* record of the id is available
C15_Witness ==
    /\ op = "getState"
    /\ arg.hash \notin objects
    /\ Legacy(arg.id) \in consumers
    /\ result.kind = "error"

\* C16: getState(id, hash) settles with a State whenever a Version record is
\* stored under hash and the consumer record of id is available; the
\* dependency set of that State is the one of the record stored under hash,
\* whichever version is the latest of the component; and getState starts no
\* lookup of a ModelComponent (every lookup is made by the frame of a get).
\* Two hashes therefore give different dependency sets exactly when the
\* records stored under them have different dependency sets.
C16_StateOfHash ==
    (op = "getState" /\ result # Pending) =>
        /\ (arg.hash \in objects /\ Legacy(arg.id) \in consumers) => result.kind = "state"
        /\ result.kind = "state"
              => result.state.dependencies = VersionOf(arg.hash).dependencies
        /\ gets = <<>>

\* getState returned the State of a version that is not the latest of its
\* component and whose dependency set is not that of the latest
C16_Witness ==
    /\ op = "getState"
    /\ result.kind = "state"
    /\ arg.id = [scope |-> ScopeName, name |-> "util"]
    /\ arg.hash = <<ScopeName, "util", "bad">>
    /\ Stored(<<ScopeName, "util">>) # NoModel
    /\ Stored(<<ScopeName, "util">>).latest = "1.0.0"
    /\ "bad" \in DOMAIN Stored(<<ScopeName, "util">>).versions

====
